---- MODULE Spec2Model ----
(***************************************************************************)
(* Model of frontend/src/App.jsx: the JobNexus AI upload view.             *)
(*                                                                         *)
(* The React state of App (file, isUploading, uploadError, jobListings,    *)
(* resumeAnalysis) is the state of the machine.  Every event handler is    *)
(* one action.  handleSubmit is an async function with one suspension      *)
(* point (the await of axios.post), so it is three actions: the part up to *)
(* the await, the continuation when the promise is fulfilled, and the      *)
(* continuation when it is rejected.  State updates queued by one handler  *)
(* run are applied together before the next event (React batches them and  *)
(* re-renders before the browser dispatches another event), so each action *)
(* is atomic and the rendered controls always reflect the current state.   *)
(*                                                                         *)
(* JavaScript values that may be undefined or null are records: Undefined, *)
(* Null, Arr(s) for an array; objects are records with their own fields.   *)
(***************************************************************************)
EXTENDS Integers, Sequences, FiniteSets, TLC

VARIABLES
    file,            \* useState(null): the selected File, or Null
    isUploading,     \* useState(false)
    uploadError,     \* useState(''): the message shown under the input
    jobListings,     \* useState([]): Arr(listings), or what the response gave
    resumeAnalysis,  \* useState(null): Null, or what the response gave
    mounted,         \* TRUE while React keeps the component tree rendered
    pending,         \* the axios.post requests in flight: [id, file]
    windows,         \* the URLs opened with window.open(url, '_blank')
    issued,          \* history: the file of every request ever issued, in order
    settled,         \* history: [id, ok] of every request settled, in order
    lastEvent        \* history: the event handled by the last step

vars == <<file, isUploading, uploadError, jobListings, resumeAnalysis, mounted,
          pending, windows, issued, settled, lastEvent>>

reactState == <<file, isUploading, uploadError, jobListings, resumeAnalysis>>

\* The React state as a record: what lastEvent keeps of the state an event found.
Snapshot ==
    [file |-> file, isUploading |-> isUploading, uploadError |-> uploadError,
     jobListings |-> jobListings, resumeAnalysis |-> resumeAnalysis]

\* The number of upload requests one behaviour may issue.
MaxRequests == 2

----------------------------------------------------------------------------
\* JavaScript values

Undefined == [undefined |-> TRUE]
Null == [null |-> TRUE]
Arr(s) == [array |-> s]

IsArray(v) == DOMAIN v = {"array"}

\* Boolean(v) for the values a string-valued expression can take here.
TruthyString(s) == s # ""

\* obj[key], undefined when the object has no such property.
Get(obj, key) == IF key \in DOMAIN obj THEN obj[key] ELSE Undefined

----------------------------------------------------------------------------
\* The inputs of the events

PDF == "application/pdf"
DOCX == "application/vnd.openxmlformats-officedocument.wordprocessingml.document"

\* The files a user can pick (input.files[0]); NoSelection is a change event
\* with an empty FileList.
Files ==
    { [name |-> "cv.pdf", type |-> PDF],
      [name |-> "cv.docx", type |-> DOCX],
      [name |-> "notes.txt", type |-> "text/plain"],
      [name |-> "scan.pdf", type |-> ""] }

NoSelection == Undefined

Job1 ==
    [id |-> 1, title |-> "Frontend Engineer", company |-> "Acme",
     company_logo |-> "https://example.com/acme.png", location |-> "Pune",
     mode |-> "Remote", match_score |-> 87, url |-> "https://example.com/job/1"]

Job2 ==
    [id |-> 2, title |-> "Data Analyst", company |-> "Globex",
     company_logo |-> "https://example.com/globex.png", location |-> "Mumbai",
     mode |-> "Hybrid", match_score |-> 40, url |-> "https://example.com/job/2"]

Analysis1 ==
    [skills |-> <<"react", "python">>,
     education |-> <<[degree |-> "BE", institution |-> "VIT", year |-> "2024"]>>,
     experience |-> <<[position |-> "Intern", company |-> "Acme", duration |-> "6m"]>>]

Analysis2 ==
    [skills |-> <<"sql">>, education |-> <<>>, experience |-> <<>>]

\* response.data of a 2xx answer of POST /api/upload-resume.  The last two
\* bodies lack one of the two properties the client reads.
ResponseBodies ==
    { [resume_analysis |-> Analysis1, job_listings |-> Arr(<<Job1, Job2>>)],
      [resume_analysis |-> Analysis2, job_listings |-> Arr(<<Job2>>)],
      [resume_analysis |-> Analysis2, job_listings |-> Arr(<<>>)],
      [resume_analysis |-> Analysis1],
      [job_listings |-> Arr(<<Job1>>)] }

\* The error axios rejects with: no response at all (network error), or a
\* non-2xx response with its body.
Errors ==
    { [message |-> "Network Error"],
      [message |-> "Request failed", response |-> [status |-> 500, data |-> [error |-> "boom"]]],
      [message |-> "Request failed", response |-> [status |-> 413, data |-> [detail |-> "file too large"]]],
      [message |-> "Request failed", response |-> [status |-> 400, data |-> [detail |-> ""]]] }

----------------------------------------------------------------------------
\* Rendering

\* Mutant of SubmitDisabled: the button is disabled only for want of a file.
SubmitDisabled_IgnoresBusy == file = Null

\* The disabled attribute of the submit button.
SubmitDisabled == isUploading \/ file = Null

\* jobListings.length > 0 && (...): the job cards are rendered.
JobCardsShown == IsArray(jobListings) /\ Len(jobListings.array) > 0

\* Evaluating the JSX throws: jobListings.length of undefined, or
\* resumeAnalysis.skills.map of an object without skills.
RenderThrows(jl, ra) ==
    \/ jl = Undefined
    \/ jl = Null
    \/ (ra # Null /\ ra # Undefined /\ "skills" \notin DOMAIN ra)

----------------------------------------------------------------------------
\* Mutant of Init: the view starts with sample results left in the initial state.
Init_SampleResults ==
    /\ file = Null
    /\ isUploading = FALSE
    /\ uploadError = ""
    /\ jobListings = Arr(<<Job1>>)
    /\ resumeAnalysis = Analysis1
    /\ mounted = TRUE
    /\ pending = {}
    /\ windows = {}
    /\ issued = <<>>
    /\ settled = <<>>
    /\ lastEvent = [kind |-> "init", before |-> Snapshot]

Init ==
    /\ file = Null
    /\ isUploading = FALSE
    /\ uploadError = ""
    /\ jobListings = Arr(<<>>)
    /\ resumeAnalysis = Null
    /\ mounted = TRUE
    /\ pending = {}
    /\ windows = {}
    /\ issued = <<>>
    /\ settled = <<>>
    /\ lastEvent = [kind |-> "init", before |-> Snapshot]

----------------------------------------------------------------------------
\* handleFileChange

\* Mutant of validTypes: a third type is let through.
validTypes_AllowsText == {PDF, DOCX, "text/plain"}

validTypes == {PDF, DOCX}

\* Mutant of handleFileChange: a rejected selection shows the error and keeps
\* the file selected before (setFile(null) left out).
handleFileChange_KeepsFile(selectedFile) ==
    IF selectedFile = Undefined
    THEN UNCHANGED reactState
    ELSE IF selectedFile.type \notin validTypes
    THEN /\ uploadError' = "Please upload only PDF or DOCX files"
         /\ UNCHANGED <<file, isUploading, jobListings, resumeAnalysis>>
    ELSE /\ file' = selectedFile
         /\ uploadError' = ""
         /\ UNCHANGED <<isUploading, jobListings, resumeAnalysis>>

\* onChange of the file input; selectedFile is e.target.files[0].
handleFileChange(selectedFile) ==
    IF selectedFile = Undefined
    THEN UNCHANGED reactState
    ELSE IF selectedFile.type \notin validTypes
    THEN /\ uploadError' = "Please upload only PDF or DOCX files"
         /\ file' = Null
         /\ UNCHANGED <<isUploading, jobListings, resumeAnalysis>>
    ELSE /\ file' = selectedFile
         /\ uploadError' = ""
         /\ UNCHANGED <<isUploading, jobListings, resumeAnalysis>>

----------------------------------------------------------------------------
\* handleSubmit

\* The id the next axios.post gets: requests are numbered in issue order.
NextId == Len(issued) + 1

\* Mutant of handleSubmit: the missing-file branch shows its error and falls
\* through to the upload (no return).
handleSubmit_NoReturn ==
    /\ isUploading' = TRUE
    /\ uploadError' = ""
    /\ pending' = pending \cup {[id |-> NextId, file |-> file]}
    /\ issued' = Append(issued, file)
    /\ UNCHANGED <<file, jobListings, resumeAnalysis>>

\* Mutant of handleSubmit: the request is issued without setIsUploading(true).
handleSubmit_NotBusy ==
    IF file = Null
    THEN /\ uploadError' = "Please select a file first"
         /\ UNCHANGED <<file, isUploading, jobListings, resumeAnalysis, pending, issued>>
    ELSE /\ uploadError' = ""
         /\ pending' = pending \cup {[id |-> NextId, file |-> file]}
         /\ issued' = Append(issued, file)
         /\ UNCHANGED <<file, isUploading, jobListings, resumeAnalysis>>

\* Mutant of handleSubmit: the error of an earlier attempt is not cleared.
handleSubmit_KeepsError ==
    IF file = Null
    THEN /\ uploadError' = "Please select a file first"
         /\ UNCHANGED <<file, isUploading, jobListings, resumeAnalysis, pending, issued>>
    ELSE /\ isUploading' = TRUE
         /\ pending' = pending \cup {[id |-> NextId, file |-> file]}
         /\ issued' = Append(issued, file)
         /\ UNCHANGED <<file, uploadError, jobListings, resumeAnalysis>>

\* onSubmit of the form, up to the await of axios.post.
handleSubmit ==
    IF file = Null
    THEN /\ uploadError' = "Please select a file first"
         /\ UNCHANGED <<file, isUploading, jobListings, resumeAnalysis, pending, issued>>
    ELSE /\ isUploading' = TRUE
         /\ uploadError' = ""
         /\ pending' = pending \cup {[id |-> NextId, file |-> file]}
         /\ issued' = Append(issued, file)
         /\ UNCHANGED <<file, jobListings, resumeAnalysis>>

\* error.response?.data?.detail is defined: every link of the optional chain
\* is present.
HasDetail(error) ==
    /\ "response" \in DOMAIN error
    /\ "data" \in DOMAIN error.response
    /\ "detail" \in DOMAIN error.response.data

\* Mutant of ErrorMessage: the server's detail is ignored.
ErrorMessage_AlwaysGeneric(error) == "Error uploading resume"

\* error.response?.data?.detail || 'Error uploading resume'
ErrorMessage(error) ==
    IF HasDetail(error) /\ TruthyString(error.response.data.detail)
    THEN error.response.data.detail
    ELSE "Error uploading resume"

\* Mutant of handleSubmitFulfilled: new listings are appended to the ones shown.
handleSubmitFulfilled_Merges(r, data) ==
    /\ pending' = pending \ {r}
    /\ settled' = Append(settled, [id |-> r.id, ok |-> TRUE])
    /\ UNCHANGED issued
    /\ IF mounted
       THEN /\ resumeAnalysis' = Get(data, "resume_analysis")
            /\ jobListings' =
                   IF IsArray(jobListings) /\ IsArray(Get(data, "job_listings"))
                   THEN Arr(jobListings.array \o Get(data, "job_listings").array)
                   ELSE Get(data, "job_listings")
            /\ isUploading' = FALSE
            /\ mounted' = ~RenderThrows(jobListings', resumeAnalysis')
            /\ UNCHANGED <<file, uploadError>>
       ELSE UNCHANGED <<reactState, mounted>>

\* Mutant of handleSubmitFulfilled: the form is reset after a success.
handleSubmitFulfilled_ClearsFile(r, data) ==
    /\ pending' = pending \ {r}
    /\ settled' = Append(settled, [id |-> r.id, ok |-> TRUE])
    /\ UNCHANGED issued
    /\ IF mounted
       THEN /\ resumeAnalysis' = Get(data, "resume_analysis")
            /\ jobListings' = Get(data, "job_listings")
            /\ isUploading' = FALSE
            /\ file' = Null
            /\ mounted' = ~RenderThrows(jobListings', resumeAnalysis')
            /\ UNCHANGED uploadError
       ELSE UNCHANGED <<reactState, mounted>>

\* Mutant of handleSubmitFulfilled: the response is applied only while a file is
\* still selected.
handleSubmitFulfilled_DropsIfDeselected(r, data) ==
    /\ pending' = pending \ {r}
    /\ settled' = Append(settled, [id |-> r.id, ok |-> TRUE])
    /\ UNCHANGED issued
    /\ IF mounted
       THEN /\ resumeAnalysis' = IF file = Null THEN resumeAnalysis
                                 ELSE Get(data, "resume_analysis")
            /\ jobListings' = IF file = Null THEN jobListings
                              ELSE Get(data, "job_listings")
            /\ isUploading' = FALSE
            /\ mounted' = ~RenderThrows(jobListings', resumeAnalysis')
            /\ UNCHANGED <<file, uploadError>>
       ELSE UNCHANGED <<reactState, mounted>>

\* Mutant of handleSubmitFulfilled: a success also clears the error message.
handleSubmitFulfilled_ClearsError(r, data) ==
    /\ pending' = pending \ {r}
    /\ settled' = Append(settled, [id |-> r.id, ok |-> TRUE])
    /\ UNCHANGED issued
    /\ IF mounted
       THEN /\ resumeAnalysis' = Get(data, "resume_analysis")
            /\ jobListings' = Get(data, "job_listings")
            /\ isUploading' = FALSE
            /\ uploadError' = ""
            /\ mounted' = ~RenderThrows(jobListings', resumeAnalysis')
            /\ UNCHANGED file
       ELSE UNCHANGED <<reactState, mounted>>

\* The continuation of handleSubmit after the await, when the promise of
\* request r is fulfilled with a response whose body is data: the try block
\* and the finally block.  The next render may throw.
handleSubmitFulfilled(r, data) ==
    /\ pending' = pending \ {r}
    /\ settled' = Append(settled, [id |-> r.id, ok |-> TRUE])
    /\ UNCHANGED issued
    /\ IF mounted
       THEN /\ resumeAnalysis' = Get(data, "resume_analysis")
            /\ jobListings' = Get(data, "job_listings")
            /\ isUploading' = FALSE
            /\ mounted' = ~RenderThrows(jobListings', resumeAnalysis')
            /\ UNCHANGED <<file, uploadError>>
       ELSE UNCHANGED <<reactState, mounted>>

\* Mutant of handleSubmitRejected: a failure clears the results on display.
handleSubmitRejected_ClearsResults(r, error) ==
    /\ pending' = pending \ {r}
    /\ settled' = Append(settled, [id |-> r.id, ok |-> FALSE])
    /\ UNCHANGED issued
    /\ IF mounted
       THEN /\ uploadError' = ErrorMessage(error)
            /\ isUploading' = FALSE
            /\ jobListings' = Arr(<<>>)
            /\ resumeAnalysis' = Null
            /\ UNCHANGED <<file, mounted>>
       ELSE UNCHANGED <<reactState, mounted>>

\* Mutant of handleSubmitRejected: the busy flag is reset on the success path
\* only (no finally block).
handleSubmitRejected_NoFinally(r, error) ==
    /\ pending' = pending \ {r}
    /\ settled' = Append(settled, [id |-> r.id, ok |-> FALSE])
    /\ UNCHANGED issued
    /\ IF mounted
       THEN /\ uploadError' = ErrorMessage(error)
            /\ UNCHANGED <<file, isUploading, jobListings, resumeAnalysis, mounted>>
       ELSE UNCHANGED <<reactState, mounted>>

\* Mutant of handleSubmitRejected: a failed request is posted again.
handleSubmitRejected_Retries(r, error) ==
    /\ pending' = (pending \ {r}) \cup {[id |-> NextId, file |-> r.file]}
    /\ settled' = Append(settled, [id |-> r.id, ok |-> FALSE])
    /\ issued' = Append(issued, r.file)
    /\ IF mounted
       THEN /\ uploadError' = ErrorMessage(error)
            /\ UNCHANGED <<file, isUploading, jobListings, resumeAnalysis, mounted>>
       ELSE UNCHANGED <<reactState, mounted>>

\* The continuation when the promise of request r is rejected with error: the
\* catch block and the finally block.
handleSubmitRejected(r, error) ==
    /\ pending' = pending \ {r}
    /\ settled' = Append(settled, [id |-> r.id, ok |-> FALSE])
    /\ UNCHANGED issued
    /\ IF mounted
       THEN /\ uploadError' = ErrorMessage(error)
            /\ isUploading' = FALSE
            /\ UNCHANGED <<file, jobListings, resumeAnalysis, mounted>>
       ELSE UNCHANGED <<reactState, mounted>>

----------------------------------------------------------------------------
\* handleViewJob

\* Mutant of handleViewJob: the URL is loaded in the application's own browsing
\* context (window.location), which unloads the view.
handleViewJob_SameTab(url) ==
    /\ mounted' = FALSE
    /\ UNCHANGED <<windows, reactState>>

\* window.open(url, '_blank'): no setter is called.
handleViewJob(url) ==
    /\ windows' = windows \cup {url}
    /\ UNCHANGED <<reactState, mounted>>

----------------------------------------------------------------------------
\* The events

\* The user picks a file (or closes the picker) in the file input.
FileInputChange ==
    \E selectedFile \in Files \cup {NoSelection} :
        /\ mounted
        /\ handleFileChange(selectedFile)
        /\ lastEvent' = [kind |-> "select", selected |-> selectedFile, before |-> Snapshot]
        /\ UNCHANGED <<mounted, pending, windows, issued, settled>>

\* The user clicks the submit button, which the browser lets through only
\* when the button is not disabled.
SubmitButtonClick ==
    /\ mounted
    /\ ~SubmitDisabled
    /\ Len(issued) < MaxRequests
    /\ handleSubmit
    /\ lastEvent' = [kind |-> "submit", hadFile |-> file # Null, before |-> Snapshot]
    /\ UNCHANGED <<mounted, windows, settled>>

\* A submit event dispatched on the form itself (form.requestSubmit(), a test's
\* fireEvent.submit): it reaches onSubmit whatever the button's state.
FormSubmitEvent ==
    /\ mounted
    /\ file # Null => Len(issued) < MaxRequests
    /\ handleSubmit
    /\ lastEvent' = [kind |-> "submit", hadFile |-> file # Null, before |-> Snapshot]
    /\ UNCHANGED <<mounted, windows, settled>>

\* The server answers a request in flight with 2xx.
RequestFulfilled ==
    \E r \in pending, data \in ResponseBodies :
        /\ handleSubmitFulfilled(r, data)
        /\ lastEvent' = [kind |-> "fulfilled", id |-> r.id, data |-> data,
                         before |-> Snapshot]
        /\ UNCHANGED windows

\* A request in flight fails: non-2xx, or no response.
RequestRejected ==
    \E r \in pending, error \in Errors :
        /\ handleSubmitRejected(r, error)
        /\ lastEvent' = [kind |-> "rejected", id |-> r.id, error |-> error,
                         before |-> Snapshot]
        /\ UNCHANGED windows

\* The user clicks "View Job" on one of the rendered cards.
ViewJobClick ==
    /\ mounted
    /\ JobCardsShown
    /\ \E i \in 1..Len(jobListings.array) :
        /\ handleViewJob(jobListings.array[i].url)
        /\ lastEvent' = [kind |-> "view", url |-> jobListings.array[i].url,
                         before |-> Snapshot]
    /\ UNCHANGED <<pending, issued, settled>>

\* The application driven through its rendered controls.
Next ==
    \/ FileInputChange
    \/ SubmitButtonClick
    \/ RequestFulfilled
    \/ RequestRejected
    \/ ViewJobClick

Spec == Init /\ [][Next]_vars

\* The same, with submit events that do not come from the button.
NextForm ==
    \/ Next
    \/ FormSubmitEvent

SpecForm == Init /\ [][NextForm]_vars

----------------------------------------------------------------------------
\* Properties

\* The two MIME types the upload accepts.
AcceptedMimeTypes ==
    {"application/pdf",
     "application/vnd.openxmlformats-officedocument.wordprocessingml.document"}

Settles == {"fulfilled", "rejected"}

\* C1: in the state right after a request settles, with success or with
\* failure, isUploading is false.
BusyFalseAfterSettle ==
    lastEvent.kind \in Settles => isUploading = FALSE

\* C1 witness: a failed settle that follows a successful one of an earlier
\* request, the busy flag having been true when it arrived.
BusyFalseAfterSettle_Witness ==
    /\ lastEvent.kind = "rejected"
    /\ lastEvent.before.isUploading
    /\ Len(settled) = 2
    /\ settled[1].ok
    /\ isUploading = FALSE

\* C2: at most one upload request is in flight in every reachable state.
AtMostOneInFlight == Cardinality(pending) <= 1

\* C2 witness: a request is in flight, a file is selected (the one thing the
\* button otherwise needs), and one request has already been settled.
AtMostOneInFlight_Witness ==
    /\ Cardinality(pending) = 1
    /\ file # Null
    /\ isUploading
    /\ Len(settled) = 1

\* The selection event of lastEvent chose a file whose type is not accepted.
RejectedSelection(ev) ==
    /\ ev.kind = "select"
    /\ ev.selected # NoSelection
    /\ ev.selected.type \notin AcceptedMimeTypes

\* C3: after a selection of a file whose MIME type is neither accepted type,
\* no file is selected and the error is "Please upload only PDF or DOCX files".
RejectedSelectionClearsFile ==
    RejectedSelection(lastEvent) =>
        /\ file = Null
        /\ uploadError = "Please upload only PDF or DOCX files"

\* C3 witness: a file of another type is chosen while a valid file was selected.
RejectedSelectionClearsFile_Witness ==
    /\ RejectedSelection(lastEvent)
    /\ lastEvent.before.file # Null
    /\ file = Null

\* C4: a submit with no file selected sets the error to "Please select a file
\* first", issues no request, and leaves isUploading, jobListings and
\* resumeAnalysis as they were.
NoFileSubmitOnlySetsError ==
    [][ (lastEvent'.kind = "submit" /\ file = Null) =>
            /\ uploadError' = "Please select a file first"
            /\ issued' = issued
            /\ pending' = pending
            /\ UNCHANGED <<isUploading, jobListings, resumeAnalysis>> ]_vars

\* C4 witness: a submit with no file while an earlier request is still in flight
\* (its file was deselected by a rejected selection).
NoFileSubmitOnlySetsError_Witness ==
    /\ lastEvent.kind = "submit"
    /\ lastEvent.before.file = Null
    /\ uploadError = "Please select a file first"
    /\ isUploading
    /\ pending # {}

\* f is a File whose declared type is one of the two accepted types.
HasAcceptedType(f) == "type" \in DOMAIN f /\ f.type \in AcceptedMimeTypes

\* C5: every request ever issued carries a file of an accepted type, and neither
\* a rejected selection nor a submit without a file issues a request.
ValidationErrorsStayLocal ==
    [][ /\ \A i \in 1..Len(issued') : HasAcceptedType(issued'[i])
        /\ \A r \in pending' : HasAcceptedType(r.file)
        /\ (RejectedSelection(lastEvent') \/ (lastEvent'.kind = "submit" /\ file = Null))
               => (issued' = issued /\ pending' = pending) ]_vars

\* C5 witness: two requests were issued, with different files, and the last
\* event is a rejected selection.
ValidationErrorsStayLocal_Witness ==
    /\ Len(issued) = 2
    /\ issued[1] # issued[2]
    /\ RejectedSelection(lastEvent)

\* body[key] of a response or error body, Undefined when it has no such field.
Field(body, key) == IF key \in DOMAIN body THEN body[key] ELSE Undefined

\* C6: after a successful settle jobListings is exactly the response's
\* job_listings and resumeAnalysis exactly its resume_analysis.
SuccessReplacesResults ==
    lastEvent.kind = "fulfilled" =>
        /\ jobListings = Field(lastEvent.data, "job_listings")
        /\ resumeAnalysis = Field(lastEvent.data, "resume_analysis")

\* C6 witness: a second success arrives while the results of the first are on
\* display, and only the new ones remain.
SuccessReplacesResults_Witness ==
    /\ lastEvent.kind = "fulfilled"
    /\ lastEvent.before.jobListings = Arr(<<Job1, Job2>>)
    /\ lastEvent.before.resumeAnalysis = Analysis1
    /\ jobListings = Arr(<<Job2>>)
    /\ resumeAnalysis = Analysis2

\* C7: a failed settle leaves jobListings and resumeAnalysis unchanged.
FailureKeepsResults ==
    [][ lastEvent'.kind = "rejected" => UNCHANGED <<jobListings, resumeAnalysis>> ]_vars

\* C7 witness: after a failed settle the results of an earlier success are still
\* on display.
FailureKeepsResults_Witness ==
    /\ lastEvent.kind = "rejected"
    /\ jobListings = Arr(<<Job1, Job2>>)
    /\ resumeAnalysis = Analysis1
    /\ uploadError # ""

\* Some request has settled successfully.
SomeSuccess == \E i \in 1..Len(settled) : settled[i].ok

\* C8: results are on display only after a successful settle; until the first
\* one jobListings is empty and resumeAnalysis absent.
ResultsOnlyAfterSuccess ==
    (jobListings # Arr(<<>>) \/ resumeAnalysis # Null) => SomeSuccess

\* C8 witness: a failure, then a success that brought results.
ResultsOnlyAfterSuccess_Witness ==
    /\ Len(settled) = 2
    /\ ~settled[1].ok
    /\ settled[2].ok
    /\ jobListings # Arr(<<>>)
    /\ resumeAnalysis # Null

\* The error's response body has a detail field.
CarriesDetail(error) ==
    /\ "response" \in DOMAIN error
    /\ "data" \in DOMAIN error.response
    /\ "detail" \in DOMAIN error.response.data

\* C9 as stated: after a failed settle the error shown is the detail whenever
\* the error response body has a detail field, and the generic message otherwise.
DetailShownVerbatim ==
    lastEvent.kind = "rejected" =>
        uploadError =
            IF CarriesDetail(lastEvent.error)
            THEN lastEvent.error.response.data.detail
            ELSE "Error uploading resume"

\* C9 amended: after a failed settle the error shown is the detail when the body
\* has a non-empty detail, and the generic message when there is no response,
\* no detail field, or an empty detail.
DetailShownUnlessEmpty ==
    lastEvent.kind = "rejected" =>
        uploadError =
            IF CarriesDetail(lastEvent.error) /\ lastEvent.error.response.data.detail # ""
            THEN lastEvent.error.response.data.detail
            ELSE "Error uploading resume"

\* C9 witness: a failure whose body carries a detail, shown verbatim.
DetailShownUnlessEmpty_Witness ==
    /\ lastEvent.kind = "rejected"
    /\ CarriesDetail(lastEvent.error)
    /\ uploadError = "file too large"

\* The UploadState of section 3 as a function of the busy flag and the outcome
\* of the last settled request.
UploadStateOf(busy, history) ==
    IF busy THEN "Uploading"
    ELSE IF history = <<>> THEN "Idle"
    ELSE IF history[Len(history)].ok THEN "Succeeded"
    ELSE "Failed"

UploadState == UploadStateOf(isUploading, settled)

UploadTransitions ==
    { <<"Idle", "Uploading">>, <<"Uploading", "Succeeded">>, <<"Uploading", "Failed">>,
      <<"Succeeded", "Uploading">>, <<"Failed", "Uploading">> }

IncompleteBody(ev) ==
    /\ ev.kind = "fulfilled"
    /\ ("job_listings" \notin DOMAIN ev.data \/ "resume_analysis" \notin DOMAIN ev.data)

\* C11: no outcome of a request terminates the application: after every settle
\* the view is still rendered, and after a failure or a 2xx response with an
\* incomplete body an error message is displayed.
UploadOutcomeNeverFatal ==
    /\ lastEvent.kind \in Settles => mounted
    /\ lastEvent.kind = "rejected" => uploadError # ""
    /\ IncompleteBody(lastEvent) => uploadError # ""

\* The step is a submit that found a file selected.
AcceptedSubmit == lastEvent'.kind = "submit" /\ file # Null

\* C12: a submit with a file selected issues exactly one request, and no other
\* step (a failed settle least of all) issues any: requests issued and submits
\* accepted stay equal in number.
NoAutomaticRetry ==
    [][ /\ AcceptedSubmit =>
               /\ Len(issued') = Len(issued) + 1
               /\ Cardinality(pending') = Cardinality(pending) + 1
        /\ ~AcceptedSubmit =>
               /\ issued' = issued
               /\ pending' \subseteq pending ]_vars

\* C12 witness: the one request issued has failed and nothing is in flight.
NoAutomaticRetry_Witness ==
    /\ lastEvent.kind = "rejected"
    /\ Len(issued) = 1
    /\ pending = {}

\* C13: right after a failed settle the view is rendered and idle, so a file can
\* be selected; whenever the view is rendered and idle with a file selected the
\* submit button accepts a click (while the model's request budget lasts); and
\* every request in flight can be answered with success.
FailureIsRecoverable ==
    /\ lastEvent.kind = "rejected" =>
           (mounted /\ ~isUploading /\ ENABLED FileInputChange)
    /\ (mounted /\ ~isUploading /\ file # Null /\ Len(issued) < MaxRequests) =>
           ENABLED SubmitButtonClick
    /\ pending # {} => ENABLED RequestFulfilled

\* C13 witness: a request failed, the user submitted again, and that request
\* succeeded with its results on display.
FailureIsRecoverable_Witness ==
    /\ Len(settled) = 2
    /\ ~settled[1].ok
    /\ settled[2].ok
    /\ lastEvent.kind = "fulfilled"
    /\ mounted
    /\ jobListings = Arr(<<Job1, Job2>>)

\* C14: the view-job action opens the URL of one of the listings on display in
\* a new browsing context and changes nothing else: not the React state, not
\* the requests in flight, not the view itself.
ViewJobOnlyOpensUrl ==
    [][ lastEvent'.kind = "view" =>
            /\ \E i \in 1..Len(jobListings.array) :
                   jobListings.array[i].url = lastEvent'.url
            /\ windows' = windows \cup {lastEvent'.url}
            /\ UNCHANGED <<file, isUploading, uploadError, jobListings, resumeAnalysis>>
            /\ UNCHANGED <<pending, mounted>> ]_vars

\* C14 witness: a job of an earlier result is viewed while the next upload is in
\* flight.
ViewJobOnlyOpensUrl_Witness ==
    /\ lastEvent.kind = "view"
    /\ lastEvent.url = "https://example.com/job/1"
    /\ "https://example.com/job/1" \in windows
    /\ isUploading
    /\ pending # {}

\* C15: the selected file changes only in a file-selection event: a valid
\* selection sets it, a rejected one clears it, and an event with no file chosen
\* leaves it, as does every other event.
FileChangesOnlyOnSelection ==
    [][ /\ file' # file => lastEvent'.kind = "select"
        /\ lastEvent'.kind = "select" =>
               file' = IF lastEvent'.selected = NoSelection THEN file
                       ELSE IF lastEvent'.selected.type \in AcceptedMimeTypes
                            THEN lastEvent'.selected
                            ELSE Null ]_vars

\* C15 witness: two requests have settled, the second with success, and a
\* selection event with no file chosen leaves the file selected.
FileChangesOnlyOnSelection_Witness ==
    /\ Len(settled) = 2
    /\ settled[2].ok
    /\ lastEvent.kind = "select"
    /\ lastEvent.selected = NoSelection
    /\ file # Null

\* C16: a submit with a file selected sets isUploading, clears the error and
\* puts the selected file in flight, leaving the file, jobListings and
\* resumeAnalysis alone; and jobListings and resumeAnalysis change in no step
\* but a successful settle.
SubmitMarksBusyAndClearsError ==
    [][ /\ AcceptedSubmit =>
               /\ isUploading' = TRUE
               /\ uploadError' = ""
               /\ \E r \in pending' \ pending : r.file = file
               /\ UNCHANGED <<file, jobListings, resumeAnalysis>>
        /\ (jobListings' # jobListings \/ resumeAnalysis' # resumeAnalysis) =>
               lastEvent'.kind = "fulfilled" ]_vars

\* C16 witness: a submit that found the error of a failed attempt on display
\* and clears it, the second request now in flight.
SubmitMarksBusyAndClearsError_Witness ==
    /\ lastEvent.kind = "submit"
    /\ lastEvent.before.uploadError = "file too large"
    /\ ~lastEvent.before.isUploading
    /\ uploadError = ""
    /\ isUploading
    /\ Len(issued) = 2

\* C17: isUploading is true exactly when a request has been issued and has not
\* yet settled.
BusyIffInFlight == isUploading <=> pending # {}

\* C17 witness: the busy flag is up for the second request, whose file has been
\* deselected meanwhile.
BusyIffInFlight_Witness ==
    /\ isUploading
    /\ Cardinality(pending) = 1
    /\ Len(settled) = 1
    /\ file = Null

\* C18: a request in flight carries the file that was selected when it was
\* submitted; a selection event changes no request in flight; and a successful
\* settle applies the response whatever has been selected since.
InFlightFileFixedAtSubmit ==
    [][ /\ AcceptedSubmit => \E r \in pending' : r.id = Len(issued') /\ r.file = file
        /\ \A r \in pending' : r.file = issued'[r.id]
        /\ lastEvent'.kind = "select" => (pending' = pending /\ issued' = issued)
        /\ lastEvent'.kind = "fulfilled" =>
               /\ jobListings' = Field(lastEvent'.data, "job_listings")
               /\ resumeAnalysis' = Field(lastEvent'.data, "resume_analysis") ]_vars

\* C18 witness: the file was deselected by a rejected selection while its upload
\* was in flight, and the response was applied all the same.
InFlightFileFixedAtSubmit_Witness ==
    /\ lastEvent.kind = "fulfilled"
    /\ file = Null
    /\ issued[lastEvent.id] # file
    /\ lastEvent.before.jobListings = Arr(<<>>)
    /\ jobListings = Arr(<<Job1, Job2>>)
    /\ resumeAnalysis = Analysis1

\* C19 as stated: after a successful settle the error message is empty.
SuccessShowsNoError ==
    lastEvent.kind = "fulfilled" => uploadError = ""

\* C19 amended: a successful settle leaves the error message as it was; it is
\* empty unless a selection was rejected while the upload was in flight, and
\* then the rejection's message stays, with no file selected.
SuccessLeavesErrorAsIs ==
    [][ lastEvent'.kind = "fulfilled" =>
            /\ uploadError' = uploadError
            /\ uploadError' \in {"", "Please upload only PDF or DOCX files"}
            /\ uploadError' # "" => file' = Null ]_vars

\* C19 witness: fresh results on display together with the message of a
\* selection rejected during the upload.
SuccessLeavesErrorAsIs_Witness ==
    /\ lastEvent.kind = "fulfilled"
    /\ uploadError = "Please upload only PDF or DOCX files"
    /\ jobListings = Arr(<<Job2>>)
    /\ lastEvent.before.jobListings = Arr(<<>>)

====
